---- MODULE Spec2Model ----
(***************************************************************************)
(* Model of the BLS zero-knowledge prover library (src/src/lib.rs) and of  *)
(* the proof artifact of its command line (src/src/main.rs):               *)
(*   - ZkeyParser: the cursor walk over a binary .zkey buffer;             *)
(*   - SnarkjsProver: setup, generate_proof and verify_proof, which drive  *)
(*     external tools through fixed files of the temporary directory;      *)
(*   - BatchProver: the sequential batch driver;                           *)
(*   - main: the Prove command writing the artifact, the Verify command    *)
(*     reading it back.                                                    *)
(* Five specifications share the variables: ZkeySpec (the parser), Spec    *)
(* (the prover with concurrent callers), BatchSpec (the batch), KeySpec    *)
(* (the conversion of a verification-key document by setup) and SeqSpec    *)
(* (one thread using the prover, the artifact, and a replaced key file).   *)
(***************************************************************************)
EXTENDS Integers, Sequences, FiniteSets, TLC

VARIABLES
    \* ---- ZkeyParser (lib.rs:75-78) and the locals of parse ----
    data,            \* ZkeyParser.data: the bytes of the file
    pos,             \* ZkeyParser.pos: usize cursor, as three limbs (see U64)
    zpc,             \* position of parse: "off","magic","version","count","headers","find","done"
    magic,           \* local `magic` of parse
    version,         \* local `version`
    num_sections,    \* local `num_sections`
    sections,        \* local `sections`: sequence of <<type, offset, size>>
    parse_result,    \* what parse returned: "none", an error text, or "panic"
    overflow_checks  \* build profile: TRUE = arithmetic overflow panics (debug)

VARIABLES
    \* ---- files the prover looks at ----
    wasm_exists,     \* Path::new(&self.wasm_path).exists()
    zkey_exists,     \* Path::new(&self.zkey_path).exists()
    vk_file,         \* content of verification_key.json: NoFile, Malformed or a document
    tools_installed, \* `node` and `snarkjs` can be spawned
    tmp,             \* the fixed files of std::env::temp_dir(): name -> content or NoFile
    \* ---- SnarkjsProver (lib.rs:290-296) ----
    verifying_key,   \* Option<VerifyingKey>: None or the converted key
    setup_ret,       \* what the last setup() returned ("none" before any call)
    \* ---- callers of generate_proof / verify_proof (&self: may run concurrently) ----
    pc,              \* pc[p]: position of caller p inside its call
    inputs,          \* inputs[p]: the BLSProofInputs argument of generate_proof
    vproof,          \* vproof[p]: the proof_json argument of verify_proof
    vpublic,         \* vpublic[p]: the public_inputs argument of verify_proof
    locals,          \* locals[p]: proof_json, public_json, status of the call
    ret,             \* ret[p]: the value the call returned
    ran              \* ran[p]: external tool steps the call has started, in order

VARIABLES
    \* ---- BatchProver::prove_batch (lib.rs:580-607) ----
    bpc,             \* "off", "new", "loop", "wait", "done"
    binputs,         \* the `inputs` argument
    bindex,          \* the loop index i
    proofs,          \* local `proofs`
    batch_ret,       \* what new / prove_batch returned
    invoked,         \* indices generate_proof was invoked for, in order
    failed_at        \* index whose generate_proof returned Err, or -1

VARIABLES
    \* ---- main (main.rs): the Prove and the Verify command ----
    mpc,             \* "off", "prove", "saved", "loaded", "done"
    artifact,        \* the file of --output / --proof-file: NoFile or a JSON document
    proof_bytes,     \* local `proof_bytes` of the Verify command
    cli_public_inputs, \* local `public_inputs` of the Verify command
    main_ret         \* what main returned

zvars == <<data, pos, zpc, magic, version, num_sections, sections,
           parse_result, overflow_checks>>

envvars == <<wasm_exists, zkey_exists, vk_file, tools_installed>>

callvars == <<pc, inputs, vproof, vpublic, locals, ret, ran>>

pvars == <<envvars, tmp, verifying_key, setup_ret, callvars>>

bvars == <<bpc, binputs, bindex, proofs, batch_ret, invoked, failed_at>>

mvars == <<mpc, artifact, proof_bytes, cli_public_inputs, main_ret>>

vars == <<zvars, pvars, bvars, mvars>>

(***************************************************************************)
(* Bounds of the model.                                                    *)
(***************************************************************************)
MaxSections == 2      \* sections laid out in a generated buffer
MaxPayload == 2       \* largest in-buffer payload of a generated section
NumCallers == 2       \* threads that call generate_proof / verify_proof
MaxInputs == 2        \* distinct well-formed proof inputs (0 is the malformed one)
CircuitPublic == 1    \* public signals of the circuit the zkey was made for
MaxBatch == 3         \* longest input list given to prove_batch

(***************************************************************************)
(* Fixed-width integers.  A u32 is kept as its value (the generated        *)
(* buffers keep the top byte below 128).  A u64 / usize is kept as three   *)
(* limbs <<l0, l1, l2>> = l0 + 2^24*l1 + 2^48*l2 with l0, l1 < 2^24 and    *)
(* l2 < 2^16, so that addition modulo 2^64 is exact.                       *)
(***************************************************************************)
Limb24 == 256 * 256 * 256
Limb16 == 256 * 256

U32FromLe(b) == b[1] + 256 * b[2] + 65536 * b[3] + 16777216 * b[4]

U64FromLe(b) == << b[1] + 256 * b[2] + 65536 * b[3],
                   b[4] + 256 * b[5] + 65536 * b[6],
                   b[7] + 256 * b[8] >>

U64(n) == << n % Limb24, n \div Limb24, 0 >>

IsSmall(u) == u[2] = 0 /\ u[3] = 0

\* <<sum modulo 2^64, overflowed>>
U64Add(a, b) ==
    LET s0 == a[1] + b[1]
        s1 == a[2] + b[2] + (s0 \div Limb24)
        s2 == a[3] + b[3] + (s1 \div Limb24)
    IN  << <<s0 % Limb24, s1 % Limb24, s2 % Limb16>>, s2 >= Limb16 >>

U64Less(a, b) ==
    \/ a[3] < b[3]
    \/ a[3] = b[3] /\ a[2] < b[2]
    \/ a[3] = b[3] /\ a[2] = b[2] /\ a[1] < b[1]

(***************************************************************************)
(* ZkeyParser                                                              *)
(***************************************************************************)
ZKEY_MAGIC == 2037081466     \* 0x796b657a, the constant parse compares with
GROTH16_SECTION == 2         \* the section type parse looks for

ErrMagic == "Invalid zkey file: wrong magic number"
ErrMissing == "Missing Groth16 section"
ErrNotImplemented == "Direct zkey parsing not fully implemented - use verification_key.json instead"
Panic == "panic"

\* data[pos], ..., data[pos + n - 1] are all inside the buffer.  Rust checks
\* every index; the first one outside the buffer panics.
CanRead(p, n) == IsSmall(p) /\ p[1] + n <= Len(data)

BytesAt(p, n) == SubSeq(data, p[1] + 1, p[1] + n)

\* read_u32: <<ok, value, cursor after>>; ok = FALSE is the index panic.
read_u32(p) ==
    IF CanRead(p, 4)
    THEN [ok |-> TRUE, val |-> U32FromLe(BytesAt(p, 4)), pos |-> U64Add(p, U64(4))[1]]
    ELSE [ok |-> FALSE, val |-> 0, pos |-> p]

\* read_u64: the value is a u64 in limbs.
read_u64(p) ==
    IF CanRead(p, 8)
    THEN [ok |-> TRUE, val |-> U64FromLe(BytesAt(p, 8)), pos |-> U64Add(p, U64(8))[1]]
    ELSE [ok |-> FALSE, val |-> U64(0), pos |-> p]

ParseReturn(r) ==
    /\ parse_result' = r
    /\ zpc' = "done"

\* let magic = self.read_u32(); if magic != 0x796b657a { return Err(..) }
ParseMagic ==
    /\ zpc = "magic"
    /\ LET r == read_u32(pos) IN
       IF ~r.ok
       THEN /\ ParseReturn(Panic)
            /\ UNCHANGED <<pos, magic>>
       ELSE /\ pos' = r.pos
            /\ magic' = r.val
            /\ IF r.val # ZKEY_MAGIC
               THEN ParseReturn(ErrMagic)
               ELSE zpc' = "version" /\ UNCHANGED parse_result
    /\ UNCHANGED <<data, version, num_sections, sections, overflow_checks, pvars, bvars, mvars>>

\* let version = self.read_u32();
ParseVersion ==
    /\ zpc = "version"
    /\ LET r == read_u32(pos) IN
       IF ~r.ok
       THEN /\ ParseReturn(Panic)
            /\ UNCHANGED <<pos, version>>
       ELSE /\ pos' = r.pos
            /\ version' = r.val
            /\ zpc' = "count"
            /\ UNCHANGED parse_result
    /\ UNCHANGED <<data, magic, num_sections, sections, overflow_checks, pvars, bvars, mvars>>

\* let num_sections = self.read_u32();
ParseNumSections ==
    /\ zpc = "count"
    /\ LET r == read_u32(pos) IN
       IF ~r.ok
       THEN /\ ParseReturn(Panic)
            /\ UNCHANGED <<pos, num_sections>>
       ELSE /\ pos' = r.pos
            /\ num_sections' = r.val
            /\ zpc' = "headers"
            /\ UNCHANGED parse_result
    /\ UNCHANGED <<data, magic, version, sections, overflow_checks, pvars, bvars, mvars>>

\* One iteration of `for _ in 0..num_sections`.
ParseSectionHeader ==
    /\ zpc = "headers"
    /\ Len(sections) < num_sections
    /\ LET t == read_u32(pos) IN
       IF ~t.ok
       THEN /\ ParseReturn(Panic)
            /\ UNCHANGED <<pos, sections>>
       ELSE LET s == read_u64(t.pos) IN
            IF ~s.ok
            THEN /\ ParseReturn(Panic)
                 /\ pos' = t.pos
                 /\ UNCHANGED sections
            ELSE LET section_pos == s.pos
                     sum == U64Add(s.pos, s.val)
                 IN  /\ sections' = Append(sections, <<t.val, section_pos, s.val>>)
                     /\ IF sum[2] /\ overflow_checks
                        THEN /\ ParseReturn(Panic)
                             /\ pos' = s.pos
                        ELSE /\ pos' = sum[1]
                             /\ UNCHANGED <<zpc, parse_result>>
    /\ UNCHANGED <<data, magic, version, num_sections, overflow_checks, pvars, bvars, mvars>>

\* FindGroth16 taking the last section of type 2 instead of the first
FindGroth16Last(secs) ==
    LET hits == {k \in 1..Len(secs) : secs[k][1] = GROTH16_SECTION}
    IN  IF hits = {} THEN 0 ELSE CHOOSE k \in hits : \A j \in hits : k >= j

\* sections.iter().find(|(t, _, _)| *t == 2)
FindGroth16(secs) ==
    LET hits == {k \in 1..Len(secs) : secs[k][1] = GROTH16_SECTION}
    IN  IF hits = {} THEN 0 ELSE CHOOSE k \in hits : \A j \in hits : k <= j

\* ParseFindSection returning Ok with a key pair once section 2 is found
ParseFindSectionFabricates ==
    /\ zpc = "headers"
    /\ Len(sections) >= num_sections
    /\ LET k == FindGroth16(sections) IN
       IF k = 0
       THEN /\ ParseReturn(ErrMissing)
            /\ UNCHANGED pos
       ELSE /\ pos' = sections[k][2]
            /\ ParseReturn("Ok")
    /\ UNCHANGED <<data, magic, version, num_sections, sections, overflow_checks, pvars, bvars, mvars>>

\* After the loop: locate section 2, move the cursor, return the error.
ParseFindSection ==
    /\ zpc = "headers"
    /\ Len(sections) >= num_sections
    /\ LET k == FindGroth16(sections) IN
       IF k = 0
       THEN /\ ParseReturn(ErrMissing)
            /\ UNCHANGED pos
       ELSE /\ pos' = sections[k][2]
            /\ ParseReturn(ErrNotImplemented)
    /\ UNCHANGED <<data, magic, version, num_sections, sections, overflow_checks, pvars, bvars, mvars>>

(***************************************************************************)
(* Buffers the parser is run on: a well-laid-out container with any of     *)
(* three magic tags, cut at any length.                                    *)
(***************************************************************************)
Le32(n) == << n % 256, (n \div 256) % 256, (n \div 65536) % 256, n \div 16777216 >>

Le64Small(n) == << n % 256, n \div 256, 0, 0, 0, 0, 0, 0 >>

\* 2^64 - 12: added to the cursor after a header it wraps back to the header.
WrapSize == << 244, 255, 255, 255, 255, 255, 255, 255 >>

Zeros(n) == [k \in 1..n |-> 0]

MagicTags == { << 122, 101, 107, 121 >>,     \* 0x796b657a little-endian
               << 121, 101, 107, 122 >>,     \* 0x7a6b6579 little-endian
               << 122, 107, 101, 121 >> }    \* the text "zkey"

SectionImages ==
    { Le32(t) \o Le64Small(n) \o Zeros(n) : t \in 1..2, n \in {0, MaxPayload} }
    \cup { Le32(t) \o WrapSize : t \in 1..2 }

RECURSIVE Layouts(_)
Layouts(n) ==
    IF n = 0 THEN { << >> }
    ELSE { s \o l : s \in SectionImages, l \in Layouts(n - 1) }

Containers ==
    { m \o Le32(1) \o Le32(c) \o l :
        m \in MagicTags, c \in 0..MaxSections, l \in Layouts(MaxSections) }

Prefixes(f) == { SubSeq(f, 1, n) : n \in 0..Len(f) }

Buffers == UNION { Prefixes(f) : f \in Containers }

\* ZkeyParser::new: data = the file's bytes, pos = 0.
ZkeyNew(buf) ==
    /\ data = buf
    /\ pos = U64(0)
    /\ zpc = "magic"
    /\ magic = 0
    /\ version = 0
    /\ num_sections = 0
    /\ sections = << >>
    /\ parse_result = "none"

(***************************************************************************)
(* Verification-key document (SnarkjsVerificationKey) and its conversion.  *)
(* A coordinate string is a sequence of one-character strings.             *)
(***************************************************************************)
\* Records with fields of their own, so that they compare with any content.
NoFile == [absent |-> TRUE]
Malformed == [malformed |-> TRUE]
None == [none |-> TRUE]

FieldModulus == 97    \* stand-in for the base-field prime of reductions

DigitChars == {"0", "1", "2", "3", "4", "5", "6", "7", "8", "9"}

DigitVal(c) ==
    CASE c = "0" -> 0 [] c = "1" -> 1 [] c = "2" -> 2 [] c = "3" -> 3 [] c = "4" -> 4
      [] c = "5" -> 5 [] c = "6" -> 6 [] c = "7" -> 7 [] c = "8" -> 8 [] c = "9" -> 9

StartsWith(str, c) == Len(str) > 0 /\ str[1] = c

RECURSIVE DigitsValue(_, _)
DigitsValue(str, acc) ==
    IF str = << >> THEN acc
    ELSE IF str[1] = "_" THEN DigitsValue(Tail(str), acc)
    ELSE DigitsValue(Tail(str), 10 * acc + DigitVal(str[1]))

\* BigUint::from_str_radix(s, 10) after the '+' has been dropped: digits, with
\* '_' allowed between them but not in front.
ParseDigits(s, neg) ==
    IF /\ s # << >>
       /\ s[1] # "_"
       /\ \A k \in 1..Len(s) : s[k] \in DigitChars \cup {"_"}
    THEN [some |-> TRUE, neg |-> neg, mag |-> DigitsValue(s, 0)]
    ELSE [some |-> FALSE, neg |-> FALSE, mag |-> 0]

\* a leading sign c is dropped unless a '+' follows it
DropSign(s, c) ==
    IF StartsWith(s, c) /\ ~StartsWith(Tail(s), "+") THEN Tail(s) ELSE s

\* BigInt::parse_bytes(s, 10): an optional sign, then digits; None for
\* anything else.  [some, neg, mag]
ParseBytes(str) == ParseDigits(DropSign(DropSign(str, "-"), "+"), StartsWith(str, "-"))

\* Fq::from_be_bytes_mod_order(&big.to_bytes_be().1): the magnitude, reduced.
FqFromBig(b) == b.mag % FieldModulus

Ok(v) == [kind |-> "Ok", value |-> v]
Err(m) == [kind |-> "Err", msg |-> m]
ErrDetail(m, d) == [kind |-> "Err", msg |-> m, stderr |-> d]
NoReturn == [kind |-> "none"]

\* The thread unwound out of the call: an assert of a dependency failed.
Panicked == [kind |-> "panic"]

\* G1Affine::new(x, y) asserts that the point is on the curve y^2 = x^3 + 3
\* (the subgroup test is trivial for G1) and panics otherwise.
OnCurveG1(x, y) == (y * y) % FieldModulus = (x * x * x + 3) % FieldModulus

\* G2Affine::new(x, y) asserts the same for the curve over the quadratic
\* extension Fq[u]/(u^2 + 1): y^2 = x^3 + b, compared component by component.
\* The coefficient (3, 0) stands in for the twist coefficient, and the
\* subgroup test is left out.
OnCurveG2(x, y) ==
    /\ (y[1] * y[1] + 3 * x[1] * x[2] * x[2]) % FieldModulus
           = (x[1] * x[1] * x[1] + y[2] * y[2] + 3) % FieldModulus
    /\ (2 * y[1] * y[2] + x[2] * x[2] * x[2]) % FieldModulus
           = (3 * x[1] * x[1] * x[2]) % FieldModulus

\* Ok(G1Affine::new(x, y))
G1New(x, y) == IF OnCurveG1(x, y) THEN Ok(<<x, y>>) ELSE Panicked

\* Ok(G2Affine::new(Fq2::new(x_c0, x_c1), Fq2::new(y_c0, y_c1)))
G2New(x, y) == IF OnCurveG2(x, y) THEN Ok(<<x, y>>) ELSE Panicked

\* lib.rs:226-234 on the two parsed coordinates
G1FromBig(x_big, y_big) ==
    IF ~x_big.some THEN Err("Invalid X coordinate")
    ELSE IF ~y_big.some THEN Err("Invalid Y coordinate")
    ELSE G1New(FqFromBig(x_big), FqFromBig(y_big))

parse_g1_point(coords) ==
    IF Len(coords) < 2 THEN Err("Invalid G1 point")
    ELSE G1FromBig(ParseBytes(coords[1]), ParseBytes(coords[2]))

\* G2FromBig with c0 and c1 of each coordinate exchanged
G2FromBigSwapped(x_c0_big, x_c1_big, y_c0_big, y_c1_big) ==
    IF ~x_c0_big.some THEN Err("Invalid X c0")
    ELSE IF ~x_c1_big.some THEN Err("Invalid X c1")
    ELSE IF ~y_c0_big.some THEN Err("Invalid Y c0")
    ELSE IF ~y_c1_big.some THEN Err("Invalid Y c1")
    ELSE G2New(<<FqFromBig(x_c1_big), FqFromBig(x_c0_big)>>,
               <<FqFromBig(y_c1_big), FqFromBig(y_c0_big)>>)

\* lib.rs:243-260 on the four parsed coordinates
G2FromBig(x_c0_big, x_c1_big, y_c0_big, y_c1_big) ==
    IF ~x_c0_big.some THEN Err("Invalid X c0")
    ELSE IF ~x_c1_big.some THEN Err("Invalid X c1")
    ELSE IF ~y_c0_big.some THEN Err("Invalid Y c0")
    ELSE IF ~y_c1_big.some THEN Err("Invalid Y c1")
    ELSE G2New(<<FqFromBig(x_c0_big), FqFromBig(x_c1_big)>>,
               <<FqFromBig(y_c0_big), FqFromBig(y_c1_big)>>)

parse_g2_point(coords) ==
    IF Len(coords) < 2 \/ Len(coords[1]) < 2 \/ Len(coords[2]) < 2
    THEN Err("Invalid G2 point")
    ELSE G2FromBig(ParseBytes(coords[1][1]), ParseBytes(coords[1][2]),
                   ParseBytes(coords[2][1]), ParseBytes(coords[2][2]))

\* The loop of to_arkworks_vk over self.ic: the parsed points in order, or the
\* first error or panic.
RECURSIVE ParseIc(_, _)
\* IcPush leaving out an entry that does not parse
IcPushSkips(pt, rest, acc) ==
    IF pt.kind # "Ok" THEN ParseIc(rest, acc) ELSE ParseIc(rest, Append(acc, pt.value))

IcPush(pt, rest, acc) ==
    IF pt.kind # "Ok" THEN pt ELSE ParseIc(rest, Append(acc, pt.value))

ParseIc(ic, acc) ==
    IF ic = << >> THEN Ok(acc) ELSE IcPush(parse_g1_point(ic[1]), Tail(ic), acc)

\* lib.rs:264-280 on the parsed parts: the first error or panic, or the key
VkFromParts(alpha_g1, beta_g2, gamma_g2, delta_g2, gamma_abc_g1) ==
    IF alpha_g1.kind # "Ok" THEN alpha_g1
    ELSE IF beta_g2.kind # "Ok" THEN beta_g2
    ELSE IF gamma_g2.kind # "Ok" THEN gamma_g2
    ELSE IF delta_g2.kind # "Ok" THEN delta_g2
    ELSE IF gamma_abc_g1.kind # "Ok" THEN gamma_abc_g1
    ELSE Ok([alpha_g1 |-> alpha_g1.value, beta_g2 |-> beta_g2.value,
             gamma_g2 |-> gamma_g2.value, delta_g2 |-> delta_g2.value,
             gamma_abc_g1 |-> gamma_abc_g1.value])

to_arkworks_vk(doc) ==
    VkFromParts(parse_g1_point(doc.vk_alpha_1), parse_g2_point(doc.vk_beta_2),
                parse_g2_point(doc.vk_gamma_2), parse_g2_point(doc.vk_delta_2),
                ParseIc(doc.ic, << >>))

\* SnarkjsVerificationKey::load: File::open, then serde_json::from_reader.
\* No field of the document is checked against another.
LoadVk(file) ==
    IF file = NoFile THEN Err("io: verification key cannot be opened")
    ELSE IF file = Malformed THEN Err("json: verification key cannot be parsed")
    ELSE Ok(file)

(***************************************************************************)
(* Documents the verification-key file may hold.                           *)
(***************************************************************************)
DigitOf(k) == CHOOSE c \in DigitChars : DigitVal(c) = k % 10

\* the decimal text of a natural number
RECURSIVE DecimalOf(_)
DecimalOf(n) == IF n < 10 THEN <<DigitOf(n)>> ELSE Append(DecimalOf(n \div 10), DigitOf(n))

\* The point (1, 2) of the curve, its y written as 2 + k * modulus.
G1Coords(k) == << <<"1">>, DecimalOf(2 + k * FieldModulus) >>

\* The point (1 + 0u, 2 + 0u)
G2Coords == << << <<"1">>, <<"0">> >>, << <<"2">>, <<"0">> >> >>

VkDocument(n, ic) ==
    [protocol |-> "groth16", curve |-> "bn128", n_public |-> n,
     vk_alpha_1 |-> G1Coords(0), vk_beta_2 |-> G2Coords, vk_gamma_2 |-> G2Coords,
     vk_delta_2 |-> G2Coords, ic |-> ic]

IcOfLength(m) == [k \in 1..m |-> G1Coords(k)]

\* IC arrays one short of, equal to and one longer than nPublic + 1, and one
\* document with a coordinate that is no number.
VkDocuments ==
    { VkDocument(CircuitPublic, IcOfLength(m)) : m \in CircuitPublic..(CircuitPublic + 2) }
    \cup { VkDocument(CircuitPublic, Append(IcOfLength(CircuitPublic), << <<"1">>, <<"x">> >>)) }

IcMatches(doc) == Len(doc.ic) = doc.n_public + 1

\* Coordinate lists for vk_alpha_1: 0 to 3 entries, and entries that are not
\* plain digits or that name a point off the curve.
AlphaLists ==
    { << >>,
      << <<"1">> >>,
      << <<"1">>, <<"2">> >>,
      << <<"1">>, <<"3">> >>,
      << <<"1">>, <<"2">>, <<"9">> >>,
      << <<"+", "1">>, <<"2">> >>,
      << <<"1">>, <<"-", "2">> >>,
      << <<"1", "_">>, <<"2">> >>,
      << << >>, <<"2">> >>,
      << <<"x">>, <<"2">> >>,
      << <<"1">>, <<"2", " ">> >> }

\* Nested lists for vk_beta_2: missing rows, short rows, the point
\* (1 + 0u, 2 + 0u), the same with the components of each row exchanged,
\* extra rows and entries, and entries that are not plain digits.
BetaLists ==
    { << >>,
      << << <<"1">>, <<"0">> >> >>,
      << << <<"1">> >>, << <<"2">>, <<"0">> >> >>,
      << << <<"1">>, <<"0">> >>, << <<"2">> >> >>,
      << << <<"1">>, <<"0">> >>, << >> >>,
      G2Coords,
      << << <<"0">>, <<"1">> >>, << <<"0">>, <<"2">> >> >>,
      << << <<"1">>, <<"0">>, <<"7">> >>, << <<"2">>, <<"0">> >>, << <<"5">> >> >>,
      << << <<"+", "1">>, <<"0">> >>, << <<"2">>, <<"0">> >> >>,
      << << <<"1">>, <<"-", "0">> >>, << <<"2">>, <<"0">> >> >>,
      << << <<"1">>, <<"0">> >>, << <<"2", "_">>, <<"0">> >> >>,
      << << <<"1">>, <<"0">> >>, << <<"2">>, <<"x">> >> >> }

KeyDocument(alpha, beta) ==
    [protocol |-> "groth16", curve |-> "bn128", n_public |-> CircuitPublic,
     vk_alpha_1 |-> alpha, vk_beta_2 |-> beta, vk_gamma_2 |-> G2Coords,
     vk_delta_2 |-> G2Coords, ic |-> IcOfLength(CircuitPublic + 1)]

\* The two points (1, 2) and (1, -2) of the curve
PointP == << <<"1">>, <<"2">> >>
PointQ == << <<"1">>, DecimalOf(FieldModulus - 2) >>

\* IC arrays: 0 to 3 points in either order, and arrays with an entry that is
\* too short, is no number, or names a point off the curve.
IcLists ==
    { << >>,
      << PointP >>,
      << PointP, PointQ >>,
      << PointQ, PointP >>,
      << PointQ, PointP, PointP >>,
      << PointP, << <<"1">> >> >>,
      << << <<"x">>, <<"2">> >>, PointQ >>,
      << PointQ, << <<"1">>, <<"y">> >>, PointP >>,
      << PointP, << <<"1">>, <<"3">> >>, PointQ >>,
      << << <<"1">>, <<"3">> >>, << <<"x">>, <<"2">> >> >> }

KeyDocumentIc(ic) ==
    [protocol |-> "groth16", curve |-> "bn128", n_public |-> CircuitPublic,
     vk_alpha_1 |-> G1Coords(0), vk_beta_2 |-> G2Coords, vk_gamma_2 |-> G2Coords,
     vk_delta_2 |-> G2Coords, ic |-> ic]

KeyDocuments == { KeyDocument(a, b) : a \in AlphaLists, b \in BetaLists }

(***************************************************************************)
(* Temporary files and the external tools.                                 *)
(***************************************************************************)
InputFile == "bls_input.json"
WitnessFile == "witness.wtns"
ProofFile == "proof.json"
PublicFile == "public.json"
VerifyProofFile == "verify_proof.json"
VerifyPublicFile == "verify_public.json"

TmpFiles == {InputFile, WitnessFile, ProofFile, PublicFile, VerifyProofFile, VerifyPublicFile}

Callers == 1..NumCallers

\* Proof inputs are named by a number; input 0 has a non-numeric signature_x.
InputIds == 0..MaxInputs

\* serde_json::json!({...}) of the inputs, as written to the input file
InputJson(i) == [messageHash |-> i, signatureX |-> IF i = 0 THEN "abc" ELSE "num"]

\* The proof document snarkjs writes for the witness of input i, as text.
ProofText(i) == << "{", DigitOf(i), "}" >>

\* serde_json::from_str / serde_json::to_vec on a proof document
FromStr(text) ==
    IF Len(text) = 3 /\ text[1] = "{" /\ text[3] = "}" /\ text[2] \in DigitChars
    THEN Ok([pi |-> DigitVal(text[2])])
    ELSE Err("json: proof cannot be parsed")

ToVec(value) == << "{", DigitOf(value.pi), "}" >>

\* The public signals of the circuit for input i: Vec<String>
PublicSignals(i) == [k \in 1..CircuitPublic |-> i]

\* node generate_witness.js wasm input witness
GenerateWitness(input) ==
    IF ~wasm_exists THEN [ok |-> FALSE, out |-> NoFile, stderr |-> "wasm not found"]
    ELSE IF input = NoFile THEN [ok |-> FALSE, out |-> NoFile, stderr |-> "input not found"]
    ELSE IF input.signatureX # "num"
         THEN [ok |-> FALSE, out |-> NoFile, stderr |-> "cannot convert signatureX"]
    ELSE [ok |-> TRUE, out |-> [w |-> input.messageHash], stderr |-> ""]

\* snarkjs groth16 prove zkey witness proof public
Groth16Prove(witness) ==
    IF ~zkey_exists
    THEN [ok |-> FALSE, proof |-> NoFile, public |-> NoFile, stderr |-> "zkey not found"]
    ELSE IF witness = NoFile
         THEN [ok |-> FALSE, proof |-> NoFile, public |-> NoFile, stderr |-> "witness not found"]
    ELSE [ok |-> TRUE, proof |-> [text |-> ProofText(witness.w)],
          public |-> [signals |-> PublicSignals(witness.w)],
          stderr |-> ""]

\* snarkjs groth16 verify vk public proof: exit status 0 exactly when the key
\* document fits the circuit and the proof proves the statement of `public`.
Groth16Verify(vk, public, proof) ==
    /\ vk \notin {NoFile, Malformed}
    /\ public # NoFile
    /\ proof # NoFile
    /\ to_arkworks_vk(vk).kind = "Ok"
    /\ Len(vk.ic) = CircuitPublic + 1
    /\ Len(public.signals) = CircuitPublic
    /\ FromStr(proof.text).kind = "Ok"
    /\ public.signals = PublicSignals(FromStr(proof.text).value.pi)

\* snarkjs zkey export soliditycalldata public proof: the text on stdout
CalldataText(public, proof) ==
    IF public = NoFile \/ proof = NoFile THEN [proof |-> << >>, public |-> << >>]
    ELSE [proof |-> proof.text, public |-> public.signals]

NoLocals == [proof_json |-> None, public_json |-> None, solidity_calldata |-> None,
             status |-> FALSE]

Placeholder ==
    [a |-> <<"0", "0">>, b |-> << <<"0", "0">>, <<"0", "0">> >>, c |-> <<"0", "0">>,
     inputs |-> << >>]

\* parse_solidity_calldata: the text is trimmed and not looked at.
parse_solidity_calldata(calldata) == Ok(Placeholder)

(***************************************************************************)
(* SnarkjsProver                                                           *)
(***************************************************************************)
\* SnarkjsProver::new: verifying_key = None; nothing has run.
ProverNew ==
    /\ verifying_key = None
    /\ setup_ret = NoReturn
    /\ tmp = [f \in TmpFiles |-> NoFile]
    /\ pc = [p \in Callers |-> "idle"]
    /\ inputs = [p \in Callers |-> 0]
    /\ vproof = [p \in Callers |-> << >>]
    /\ vpublic = [p \in Callers |-> << >>]
    /\ locals = [p \in Callers |-> NoLocals]
    /\ ret = [p \in Callers |-> NoReturn]
    /\ ran = [p \in Callers |-> << >>]

\* self.verifying_key = Some(snarkjs_vk.to_arkworks_vk()?); Ok(())
SetupStore(vk, key) ==
    IF vk.kind # "Ok" THEN <<vk, key>> ELSE <<Ok("unit"), vk.value>>

\* let snarkjs_vk = SnarkjsVerificationKey::load(&self.vk_path)?;
SetupConvert(snarkjs_vk, key) ==
    IF snarkjs_vk.kind # "Ok" THEN <<snarkjs_vk, key>>
    ELSE SetupStore(to_arkworks_vk(snarkjs_vk.value), key)

\* What setup() returns and the verifying_key it leaves, as <<return, key>>.
setup(key) ==
    IF ~wasm_exists THEN <<Err("WASM file not found"), key>>
    ELSE IF ~zkey_exists THEN <<Err("Zkey file not found"), key>>
    ELSE IF vk_file = NoFile THEN <<Err("Verification key not found"), key>>
    ELSE SetupConvert(LoadVk(vk_file), key)

SetupApply(r) ==
    /\ setup_ret' = r[1]
    /\ verifying_key' = r[2]

\* setup(&mut self): exclusive, so no call of generate_proof / verify_proof is
\* in progress.
Setup ==
    /\ \A p \in Callers : pc[p] \in {"idle", "done"}
    /\ SetupApply(setup(verifying_key))
    /\ UNCHANGED <<zvars, bvars, mvars, envvars, tmp, callvars>>

Return(p, r) ==
    /\ ret' = [ret EXCEPT ![p] = r]
    /\ pc' = [pc EXCEPT ![p] = "done"]
    /\ locals' = [locals EXCEPT ![p] = NoLocals]

Goto(p, l) == pc' = [pc EXCEPT ![p] = l]

Started(p, tool) == ran' = [ran EXCEPT ![p] = Append(@, tool)]

ErrSpawn == Err("io: the command cannot be spawned")

\* generate_proof(&self, inputs) is entered.  verifying_key is not looked at.
GenerateProofCall(p, i) ==
    /\ pc[p] = "idle"
    /\ inputs' = [inputs EXCEPT ![p] = i]
    /\ Goto(p, "g_write")
    /\ UNCHANGED <<zvars, bvars, mvars, envvars, tmp, verifying_key, setup_ret, vproof, vpublic, locals, ret, ran>>

\* std::fs::write(&input_file, ...)
GenWriteInput(p) ==
    /\ pc[p] = "g_write"
    /\ tmp' = [tmp EXCEPT ![InputFile] = InputJson(inputs[p])]
    /\ Goto(p, "g_witness")
    /\ UNCHANGED <<zvars, bvars, mvars, envvars, verifying_key, setup_ret, inputs, vproof, vpublic, locals, ret, ran>>

\* GenWitness going on to the prove step after a failed witness step
GenWitnessContinues(p) ==
    /\ pc[p] = "g_witness"
    /\ IF ~tools_installed
       THEN /\ Return(p, ErrSpawn)
            /\ UNCHANGED <<tmp, ran>>
       ELSE LET witness_output == GenerateWitness(tmp[InputFile]) IN
            /\ Started(p, "witness")
            /\ tmp' = [tmp EXCEPT ![WitnessFile] = witness_output.out]
            /\ Goto(p, "g_prove")
            /\ UNCHANGED <<ret, locals>>
    /\ UNCHANGED <<zvars, bvars, mvars, envvars, verifying_key, setup_ret, inputs, vproof, vpublic>>

\* Step 1: node generate_witness.js; a failed status returns its stderr.
GenWitness(p) ==
    /\ pc[p] = "g_witness"
    /\ IF ~tools_installed
       THEN /\ Return(p, ErrSpawn)
            /\ UNCHANGED <<tmp, ran>>
       ELSE LET witness_output == GenerateWitness(tmp[InputFile]) IN
            /\ Started(p, "witness")
            /\ IF ~witness_output.ok
               THEN /\ Return(p, ErrDetail("Witness generation failed", witness_output.stderr))
                    /\ UNCHANGED tmp
               ELSE /\ tmp' = [tmp EXCEPT ![WitnessFile] = witness_output.out]
                    /\ Goto(p, "g_prove")
                    /\ UNCHANGED <<ret, locals>>
    /\ UNCHANGED <<zvars, bvars, mvars, envvars, verifying_key, setup_ret, inputs, vproof, vpublic>>

\* Step 2: snarkjs groth16 prove
GenProve(p) ==
    /\ pc[p] = "g_prove"
    /\ IF ~tools_installed
       THEN /\ Return(p, ErrSpawn)
            /\ UNCHANGED <<tmp, ran>>
       ELSE LET prove_output == Groth16Prove(tmp[WitnessFile]) IN
            /\ Started(p, "prove")
            /\ IF ~prove_output.ok
               THEN /\ Return(p, ErrDetail("Proof generation failed", prove_output.stderr))
                    /\ UNCHANGED tmp
               ELSE /\ tmp' = [tmp EXCEPT ![ProofFile] = prove_output.proof,
                                          ![PublicFile] = prove_output.public]
                    /\ Goto(p, "g_read_proof")
                    /\ UNCHANGED <<ret, locals>>
    /\ UNCHANGED <<zvars, bvars, mvars, envvars, verifying_key, setup_ret, inputs, vproof, vpublic>>

\* let proof_json = serde_json::from_str(&read_to_string(&proof_file)?)?;
GenReadProof(p) ==
    /\ pc[p] = "g_read_proof"
    /\ IF tmp[ProofFile] = NoFile
       THEN Return(p, Err("io: proof file cannot be read"))
       ELSE LET proof_json == FromStr(tmp[ProofFile].text) IN
            IF proof_json.kind = "Err"
            THEN Return(p, proof_json)
            ELSE /\ locals' = [locals EXCEPT ![p].proof_json = proof_json.value]
                 /\ Goto(p, "g_read_public")
                 /\ UNCHANGED ret
    /\ UNCHANGED <<zvars, bvars, mvars, envvars, tmp, verifying_key, setup_ret, inputs, vproof, vpublic, ran>>

\* let public_json: Vec<String> = serde_json::from_str(&read_to_string(&public_file)?)?;
GenReadPublic(p) ==
    /\ pc[p] = "g_read_public"
    /\ IF tmp[PublicFile] = NoFile
       THEN Return(p, Err("io: public file cannot be read"))
       ELSE /\ locals' = [locals EXCEPT ![p].public_json = tmp[PublicFile].signals]
            /\ Goto(p, "g_verify")
            /\ UNCHANGED ret
    /\ UNCHANGED <<zvars, bvars, mvars, envvars, tmp, verifying_key, setup_ret, inputs, vproof, vpublic, ran>>

\* Step 3: snarkjs groth16 verify on the files, not on the values read
GenVerify(p) ==
    /\ pc[p] = "g_verify"
    /\ IF ~tools_installed
       THEN /\ Return(p, ErrSpawn)
            /\ UNCHANGED ran
       ELSE /\ Started(p, "verify")
            /\ IF ~Groth16Verify(vk_file, tmp[PublicFile], tmp[ProofFile])
               THEN Return(p, Err("Proof verification failed"))
               ELSE /\ Goto(p, "g_calldata")
                    /\ UNCHANGED <<ret, locals>>
    /\ UNCHANGED <<zvars, bvars, mvars, envvars, tmp, verifying_key, setup_ret, inputs, vproof, vpublic>>

\* snarkjs zkey export soliditycalldata; its status is not looked at, its
\* stdout goes to parse_solidity_calldata.
GenCalldata(p) ==
    /\ pc[p] = "g_calldata"
    /\ IF ~tools_installed
       THEN /\ Return(p, ErrSpawn)
            /\ UNCHANGED ran
       ELSE LET calldata_str == CalldataText(tmp[PublicFile], tmp[ProofFile])
                solidity_calldata == parse_solidity_calldata(calldata_str)
            IN  /\ Started(p, "calldata")
                /\ IF solidity_calldata.kind = "Err"
                   THEN Return(p, solidity_calldata)
                   ELSE /\ locals' = [locals EXCEPT ![p].solidity_calldata = solidity_calldata.value]
                        /\ Goto(p, "g_finish")
                        /\ UNCHANGED ret
    /\ UNCHANGED <<zvars, bvars, mvars, envvars, tmp, verifying_key, setup_ret, inputs, vproof, vpublic>>

\* to_vec, the four remove_file calls, and Ok((ProofResult, stats)).
GenFinish(p) ==
    /\ pc[p] = "g_finish"
    /\ tmp' = [tmp EXCEPT ![InputFile] = NoFile, ![WitnessFile] = NoFile,
                          ![ProofFile] = NoFile, ![PublicFile] = NoFile]
    /\ Return(p, [kind |-> "Ok",
                  proof |-> ToVec(locals[p].proof_json),
                  public_inputs |-> locals[p].public_json,
                  solidity_calldata |-> locals[p].solidity_calldata])
    /\ UNCHANGED <<zvars, bvars, mvars, envvars, verifying_key, setup_ret, inputs, vproof, vpublic, ran>>

\* verify_proof(&self, proof_json, public_inputs) is entered.
VerifyProofCall(p, proof_json, public_inputs) ==
    /\ pc[p] = "idle"
    /\ vproof' = [vproof EXCEPT ![p] = proof_json]
    /\ vpublic' = [vpublic EXCEPT ![p] = public_inputs]
    /\ Goto(p, "v_write_proof")
    /\ UNCHANGED <<zvars, bvars, mvars, envvars, tmp, verifying_key, setup_ret, inputs, locals, ret, ran>>

\* std::fs::write(&proof_file, proof_json)
VerWriteProof(p) ==
    /\ pc[p] = "v_write_proof"
    /\ tmp' = [tmp EXCEPT ![VerifyProofFile] = [text |-> vproof[p]]]
    /\ Goto(p, "v_write_public")
    /\ UNCHANGED <<zvars, bvars, mvars, envvars, verifying_key, setup_ret, inputs, vproof, vpublic, locals, ret, ran>>

\* std::fs::write(&public_file, serde_json::to_string(public_inputs)?)
VerWritePublic(p) ==
    /\ pc[p] = "v_write_public"
    /\ tmp' = [tmp EXCEPT ![VerifyPublicFile] = [signals |-> vpublic[p]]]
    /\ Goto(p, "v_run")
    /\ UNCHANGED <<zvars, bvars, mvars, envvars, verifying_key, setup_ret, inputs, vproof, vpublic, locals, ret, ran>>

\* snarkjs groth16 verify on the two files
VerRun(p) ==
    /\ pc[p] = "v_run"
    /\ IF ~tools_installed
       THEN /\ Return(p, ErrSpawn)
            /\ UNCHANGED ran
       ELSE /\ Started(p, "verify")
            /\ locals' = [locals EXCEPT ![p].status =
                              Groth16Verify(vk_file, tmp[VerifyPublicFile], tmp[VerifyProofFile])]
            /\ Goto(p, "v_finish")
            /\ UNCHANGED ret
    /\ UNCHANGED <<zvars, bvars, mvars, envvars, tmp, verifying_key, setup_ret, inputs, vproof, vpublic>>

\* the two remove_file calls and Ok(output.status.success())
VerFinish(p) ==
    /\ pc[p] = "v_finish"
    /\ tmp' = [tmp EXCEPT ![VerifyProofFile] = NoFile, ![VerifyPublicFile] = NoFile]
    /\ Return(p, Ok(locals[p].status))
    /\ UNCHANGED <<zvars, bvars, mvars, envvars, verifying_key, setup_ret, inputs, vproof, vpublic, ran>>

\* The steps of generate_proof alone.
GenStep(p) ==
    \/ GenWriteInput(p)
    \/ GenWitness(p)
    \/ GenProve(p)
    \/ GenReadProof(p)
    \/ GenReadPublic(p)
    \/ GenVerify(p)
    \/ GenCalldata(p)
    \/ GenFinish(p)

\* The steps of verify_proof alone.
VerStep(p) ==
    \/ VerWriteProof(p)
    \/ VerWritePublic(p)
    \/ VerRun(p)
    \/ VerFinish(p)

(***************************************************************************)
(* BatchProver.  Its prover is driven by caller 1.                         *)
(***************************************************************************)
BatchCaller == 1

\* proofs.iter().flat_map(|p| p.proof.clone()).collect()
RECURSIVE FlatMapProof(_)
\* FlatMapProof putting each proof in front of the ones before it
FlatMapProofReversed(ps) ==
    IF ps = << >> THEN << >> ELSE FlatMapProof(Tail(ps)) \o ps[1].proof

FlatMapProof(ps) ==
    IF ps = << >> THEN << >> ELSE ps[1].proof \o FlatMapProof(Tail(ps))

BatchNewApply(r) ==
    /\ SetupApply(r)
    /\ IF r[1].kind # "Ok"
       THEN /\ batch_ret' = r[1]
            /\ bpc' = "done"
       ELSE /\ bpc' = "loop"
            /\ UNCHANGED batch_ret

\* BatchProver::new: BLSProver::new, then prover.setup()?
BatchNew ==
    /\ bpc = "new"
    /\ BatchNewApply(setup(verifying_key))
    /\ UNCHANGED <<zvars, mvars, envvars, tmp, callvars, binputs, bindex, proofs, invoked, failed_at>>

\* BatchGenerate walking the inputs from the last to the first
BatchGenerateReversed ==
    /\ bpc = "loop"
    /\ bindex < Len(binputs)
    /\ pc[BatchCaller] = "idle"
    /\ inputs' = [inputs EXCEPT ![BatchCaller] = binputs[Len(binputs) - bindex]]
    /\ pc' = [pc EXCEPT ![BatchCaller] = "g_write"]
    /\ ran' = [ran EXCEPT ![BatchCaller] = << >>]
    /\ invoked' = Append(invoked, bindex)
    /\ bpc' = "wait"
    /\ UNCHANGED <<zvars, mvars, envvars, tmp, verifying_key, setup_ret, vproof, vpublic, locals, ret,
                   binputs, bindex, proofs, batch_ret, failed_at>>

\* Loop head with an item left: self.prover.generate_proof(input.clone())
BatchGenerate ==
    /\ bpc = "loop"
    /\ bindex < Len(binputs)
    /\ pc[BatchCaller] = "idle"
    /\ inputs' = [inputs EXCEPT ![BatchCaller] = binputs[bindex + 1]]
    /\ pc' = [pc EXCEPT ![BatchCaller] = "g_write"]
    /\ ran' = [ran EXCEPT ![BatchCaller] = << >>]
    /\ invoked' = Append(invoked, bindex)
    /\ bpc' = "wait"
    /\ UNCHANGED <<zvars, mvars, envvars, tmp, verifying_key, setup_ret, vproof, vpublic, locals, ret,
                   binputs, bindex, proofs, batch_ret, failed_at>>

\* BatchCollect with the error of an item swallowed: the loop goes on to the
\* next index.
BatchCollectSkipsFailure ==
    /\ bpc = "wait"
    /\ pc[BatchCaller] = "done"
    /\ IF ret[BatchCaller].kind = "Err"
       THEN /\ failed_at' = IF failed_at < 0 THEN bindex ELSE failed_at
            /\ UNCHANGED <<proofs, batch_ret>>
       ELSE /\ proofs' = Append(proofs, ret[BatchCaller])
            /\ UNCHANGED <<batch_ret, failed_at>>
    /\ bindex' = bindex + 1
    /\ pc' = [pc EXCEPT ![BatchCaller] = "idle"]
    /\ bpc' = "loop"
    /\ UNCHANGED <<zvars, mvars, envvars, tmp, verifying_key, setup_ret, inputs, vproof, vpublic,
                   locals, ret, ran, binputs, invoked>>

\* generate_proof has returned: `?` returns its error as it is, dropping the
\* local proofs; otherwise proofs.push(proof) and the next index.
BatchCollect ==
    /\ bpc = "wait"
    /\ pc[BatchCaller] = "done"
    /\ IF ret[BatchCaller].kind = "Err"
       THEN /\ batch_ret' = ret[BatchCaller]
            /\ failed_at' = bindex
            /\ proofs' = << >>
            /\ bpc' = "done"
            /\ UNCHANGED <<bindex, pc>>
       ELSE /\ proofs' = Append(proofs, ret[BatchCaller])
            /\ bindex' = bindex + 1
            /\ pc' = [pc EXCEPT ![BatchCaller] = "idle"]
            /\ bpc' = "loop"
            /\ UNCHANGED <<batch_ret, failed_at>>
    /\ UNCHANGED <<zvars, mvars, envvars, tmp, verifying_key, setup_ret, inputs, vproof, vpublic,
                   locals, ret, ran, binputs, invoked>>

\* Loop exhausted: Ok(BatchProofResult { proofs, aggregated_calldata, .. })
BatchFinish ==
    /\ bpc = "loop"
    /\ bindex >= Len(binputs)
    /\ batch_ret' = [kind |-> "Ok", proofs |-> proofs,
                     aggregated_calldata |-> FlatMapProof(proofs)]
    /\ bpc' = "done"
    /\ UNCHANGED <<zvars, mvars, pvars, binputs, bindex, proofs, invoked, failed_at>>

(***************************************************************************)
(* main.rs: the Prove command saves the proof as hex text in an artifact,  *)
(* the Verify command reads it back.  It is driven by caller 1.            *)
(***************************************************************************)
MainCaller == 1

\* The bytes of a text (str::as_bytes) for the characters a proof document
\* is written with, and the way back (from_utf8).
ByteOf(c) == IF c = "{" THEN 123 ELSE IF c = "}" THEN 125 ELSE 48 + DigitVal(c)

CharOf(b) ==
    IF b = 123 THEN "{" ELSE IF b = 125 THEN "}"
    ELSE IF b >= 48 /\ b <= 57 THEN DigitOf(b - 48) ELSE "?"

Utf8(text) == [k \in 1..Len(text) |-> ByteOf(text[k])]

FromUtf8(bytes) == [k \in 1..Len(bytes) |-> CharOf(bytes[k])]

HexLower == << "0", "1", "2", "3", "4", "5", "6", "7", "8", "9", "a", "b", "c", "d", "e", "f" >>
HexUpper == << "0", "1", "2", "3", "4", "5", "6", "7", "8", "9", "A", "B", "C", "D", "E", "F" >>

RECURSIVE HexEncode(_)
\* HexEncode writing the low nibble of each byte first
HexEncodeLowFirst(bytes) ==
    IF bytes = << >> THEN << >>
    ELSE << HexLower[(bytes[1] % 16) + 1], HexLower[(bytes[1] \div 16) + 1] >>
             \o HexEncode(Tail(bytes))

\* hex::encode: two lower-case digits per byte, the high nibble first
HexEncode(bytes) ==
    IF bytes = << >> THEN << >>
    ELSE << HexLower[(bytes[1] \div 16) + 1], HexLower[(bytes[1] % 16) + 1] >>
             \o HexEncode(Tail(bytes))

IsHex(c) == \E k \in 1..16 : c = HexLower[k] \/ c = HexUpper[k]

HexVal(c) == (CHOOSE k \in 1..16 : c = HexLower[k] \/ c = HexUpper[k]) - 1

RECURSIVE HexBytes(_)
HexBytes(text) ==
    IF text = << >> THEN << >>
    ELSE << 16 * HexVal(text[1]) + HexVal(text[2]) >> \o HexBytes(Tail(Tail(text)))

\* hex::decode: an odd length and a character that is no hex digit are errors
HexDecode(text) ==
    IF Len(text) % 2 = 1 THEN Err("Odd number of digits")
    ELSE IF \E k \in 1..Len(text) : ~IsHex(text[k]) THEN Err("Invalid character")
    ELSE Ok(HexBytes(text))

MainReturn(r) ==
    /\ main_ret' = r
    /\ mpc' = "done"

\* main.rs:133-141 after setup()? and generate_proof(inputs)? went through:
\* the artifact gets the proof bytes as hex text and the public inputs.
ProveOutput ==
    /\ mpc = "prove"
    /\ setup_ret = Ok("unit")
    /\ pc[MainCaller] = "done"
    /\ ret[MainCaller].kind = "Ok"
    /\ "proof" \in DOMAIN ret[MainCaller]
    /\ artifact' = [proof |-> HexEncode(Utf8(ret[MainCaller].proof)),
                    publicInputs |-> ret[MainCaller].public_inputs]
    /\ mpc' = "saved"
    /\ UNCHANGED <<zvars, pvars, bvars, proof_bytes, cli_public_inputs, main_ret>>

\* lines 160-168 on the parsed artifact
VerifyDecode(doc, decoded) ==
    IF decoded.kind = "Err" THEN MainReturn(decoded) /\ UNCHANGED <<proof_bytes, cli_public_inputs>>
    ELSE IF "publicInputs" \notin DOMAIN doc
    THEN MainReturn(Err("Missing publicInputs")) /\ UNCHANGED <<proof_bytes, cli_public_inputs>>
    ELSE /\ proof_bytes' = decoded.value
         /\ cli_public_inputs' = doc.publicInputs
         /\ mpc' = "loaded"
         /\ UNCHANGED main_ret

\* main.rs:157-168: the artifact is read, its proof is hex-decoded and its
\* public inputs are collected.  Line 170 hands proof_bytes, a Vec<u8>, to
\* verify_proof, which declares &str; the command ends here in the model.
VerifyLoad ==
    /\ mpc = "saved"
    /\ IF artifact = NoFile
       THEN MainReturn(Err("io: proof file cannot be read")) /\ UNCHANGED <<proof_bytes, cli_public_inputs>>
       ELSE IF "proof" \notin DOMAIN artifact
       THEN MainReturn(Err("Missing proof")) /\ UNCHANGED <<proof_bytes, cli_public_inputs>>
       ELSE VerifyDecode(artifact, HexDecode(artifact.proof))
    /\ UNCHANGED <<zvars, pvars, bvars, artifact>>

\* Artifacts handed to the Verify command that no Prove command wrote.
GivenArtifacts ==
    { NoFile,
      [publicInputs |-> PublicSignals(1)],
      [proof |-> HexEncode(Utf8(ProofText(1)))],
      [proof |-> << "7", "B", "3", "1", "7", "D" >>, publicInputs |-> PublicSignals(1)],
      [proof |-> << "7", "b", "3" >>, publicInputs |-> PublicSignals(1)],
      [proof |-> << "7", "b", "3", "g" >>, publicInputs |-> PublicSignals(1)] }

\* The documents a key file is replaced with: one with vk_alpha_1 off the
\* curve, and one for each IC array of IcLists.
ReplacementDocuments ==
    { KeyDocument(<< <<"1">>, <<"3">> >>, G2Coords) } \cup { KeyDocumentIc(ic) : ic \in IcLists }

\* The verification-key file is replaced or removed after a setup call and
\* before the first proof call.
ReplaceKeyFile ==
    /\ \A p \in Callers : pc[p] = "idle"
    /\ mpc = "prove"
    /\ setup_ret # NoReturn
    /\ vk_file \notin ReplacementDocuments
    /\ vk_file' \in (ReplacementDocuments \cup {NoFile}) \ {vk_file}
    /\ UNCHANGED <<zvars, bvars, mvars, wasm_exists, zkey_exists, tools_installed, tmp,
                   verifying_key, setup_ret, callvars>>

(***************************************************************************)
(* Initial states and specifications.                                      *)
(***************************************************************************)
ZkeyOff ==
    /\ data = << >>
    /\ pos = U64(0)
    /\ zpc = "off"
    /\ magic = 0
    /\ version = 0
    /\ num_sections = 0
    /\ sections = << >>
    /\ parse_result = "none"
    /\ overflow_checks = FALSE

EnvOff ==
    /\ wasm_exists = FALSE
    /\ zkey_exists = FALSE
    /\ vk_file = NoFile
    /\ tools_installed = FALSE

BatchOff ==
    /\ bpc = "off"
    /\ binputs = << >>
    /\ bindex = 0
    /\ proofs = << >>
    /\ batch_ret = NoReturn
    /\ invoked = << >>
    /\ failed_at = -1

MainOff ==
    /\ mpc = "off"
    /\ artifact = NoFile
    /\ proof_bytes = << >>
    /\ cli_public_inputs = << >>
    /\ main_ret = NoReturn

\* The build directory: complete, or with one thing wrong.
EnvInit ==
    \/ /\ wasm_exists = TRUE /\ zkey_exists = TRUE /\ tools_installed = TRUE
       /\ vk_file \in VkDocuments \cup {NoFile, Malformed}
    \/ /\ \E e \in {<<FALSE, TRUE, TRUE>>, <<TRUE, FALSE, TRUE>>, <<TRUE, TRUE, FALSE>>} :
              /\ wasm_exists = e[1]
              /\ zkey_exists = e[2]
              /\ tools_installed = e[3]
       /\ vk_file = VkDocument(CircuitPublic, IcOfLength(CircuitPublic + 1))

ZkeyInit ==
    /\ \E buf \in Buffers : ZkeyNew(buf)
    /\ overflow_checks \in BOOLEAN
    /\ EnvOff
    /\ ProverNew
    /\ BatchOff
    /\ MainOff

ZkeyNext ==
    \/ ParseMagic
    \/ ParseVersion
    \/ ParseNumSections
    \/ ParseSectionHeader
    \/ ParseFindSection

ZkeySpec == ZkeyInit /\ [][ZkeyNext]_vars

\* Arguments given to verify_proof: a proof of some input, and public inputs
\* of the right and of a wrong length.
VerifyProofs == { ProofText(i) : i \in 1..MaxInputs }

VerifyPublics ==
    { PublicSignals(i) : i \in 1..MaxInputs }
    \cup { << >>, Append(PublicSignals(1), 1) }

Init ==
    /\ ZkeyOff
    /\ EnvInit
    /\ ProverNew
    /\ BatchOff
    /\ MainOff

Next ==
    \/ Setup
    \/ \E p \in Callers, i \in InputIds : GenerateProofCall(p, i)
    \/ \E p \in Callers, pj \in VerifyProofs, pub \in VerifyPublics : VerifyProofCall(p, pj, pub)
    \/ \E p \in Callers : GenStep(p)
    \/ \E p \in Callers : VerStep(p)

Spec == Init /\ [][Next]_vars

BatchInputs == UNION { [1..n -> InputIds] : n \in 0..MaxBatch }

BatchInit ==
    /\ ZkeyOff
    /\ EnvInit
    /\ ProverNew
    /\ bpc = "new"
    /\ binputs \in BatchInputs
    /\ bindex = 0
    /\ proofs = << >>
    /\ batch_ret = NoReturn
    /\ invoked = << >>
    /\ failed_at = -1
    /\ MainOff

BatchNext ==
    \/ BatchNew
    \/ BatchGenerate
    \/ GenStep(BatchCaller)
    \/ BatchCollect
    \/ BatchFinish

BatchSpec == BatchInit /\ [][BatchNext]_vars

\* One thread using a prover, as main does: setup, one call, the artifact
\* written and read back; the key file may be replaced between calls.
SeqInit ==
    /\ ZkeyOff
    /\ EnvInit
    /\ ProverNew
    /\ BatchOff
    /\ proof_bytes = << >>
    /\ cli_public_inputs = << >>
    /\ main_ret = NoReturn
    /\ \/ mpc = "prove" /\ artifact = NoFile
       \/ mpc = "saved" /\ artifact \in GivenArtifacts

SeqNext ==
    \/ Setup
    \/ ReplaceKeyFile
    \/ \E i \in InputIds : GenerateProofCall(MainCaller, i)
    \/ GenStep(MainCaller)
    \/ \E pj \in VerifyProofs, pub \in VerifyPublics : VerifyProofCall(MainCaller, pj, pub)
    \/ VerStep(MainCaller)
    \/ ProveOutput
    \/ VerifyLoad

SeqSpec == SeqInit /\ [][SeqNext]_vars

\* The conversion of a key document: a complete build directory whose
\* verification key is any of KeyDocuments, and setup run on it.
KeyInit ==
    /\ ZkeyOff
    /\ wasm_exists = TRUE
    /\ zkey_exists = TRUE
    /\ tools_installed = TRUE
    /\ vk_file \in KeyDocuments
    /\ ProverNew
    /\ BatchOff
    /\ MainOff

KeyNext == Setup

KeySpec == KeyInit /\ [][KeyNext]_vars

(***************************************************************************)
(* Properties of ZkeyParser::parse, checked under ZkeySpec.                *)
(***************************************************************************)
\* 0x7a6b6579, the tag the format description names, read little-endian
SpecMagic == U32FromLe(<< 121, 101, 107, 122 >>)

\* C1: parse goes past the magic check only when the first four bytes, read
\* as a little-endian u32, are 0x7a6b6579; any other value gives the magic
\* error before any section header is read.
C1_MagicGate ==
    (zpc \notin {"off", "magic"} /\ Len(data) >= 4 /\ magic # SpecMagic)
        => (parse_result = ErrMagic /\ sections = << >>)

\* C2: no read of parse runs off the buffer: a buffer too short for the file
\* header or for a declared section header is an error parse returns, never
\* a crash.
C2_TruncationCaught == parse_result # Panic

\* the payload of a recorded section ends after the end of the buffer
PastEnd(sec) ==
    LET end == U64Add(sec[2], sec[3])
    IN  end[2] \/ U64Less(U64(Len(data)), end[1])

\* C3: when a recorded section's size carries the cursor past the end of the
\* buffer, what parse returns is a truncation error; it does not finish the
\* walk as if the buffer were whole.
IsTruncationError(r) == r \notin {"none", Panic, ErrMagic, ErrMissing, ErrNotImplemented}

C3_OversizeRejected ==
    (/\ zpc = "done"
     /\ parse_result # Panic
     /\ \E k \in 1..Len(sections) : PastEnd(sections[k]))
        => IsTruncationError(parse_result)

\* the recorded sections of type 2, by position in header order
Groth16Hits == {k \in 1..Len(sections) : sections[k][1] = GROTH16_SECTION}

\* parse read every declared header and went through the section lookup
LookupDone == zpc = "done" /\ parse_result \notin {Panic, ErrMagic}

\* C17: once every declared header has been read, parse returns the
\* missing-section error when no recorded section has type 2, and otherwise
\* leaves the cursor at the recorded offset of the first section of type 2.
C17_SectionLookup ==
    LookupDone
        => /\ Len(sections) = num_sections
           /\ IF Groth16Hits = {}
              THEN parse_result = ErrMissing
              ELSE /\ parse_result # ErrMissing
                   /\ \E k \in Groth16Hits :
                          /\ \A j \in Groth16Hits : k <= j
                          /\ pos = sections[k][2]

\* two sections of type 2 at different offsets; the cursor is at the first
C17_Witness ==
    /\ LookupDone
    /\ Len(sections) = 2
    /\ Groth16Hits = {1, 2}
    /\ sections[1][2] # sections[2][2]
    /\ pos = sections[1][2]

IsGenerateResult(r) == r.kind = "Ok" /\ "proof" \in DOMAIN r

VerifyReturned(p) == pc[p] = "done" /\ vproof[p] # << >>

ErrLengthMismatch == Err("public input count does not match the verifying key")
ErrSetupNotPerformed == Err("setup not performed")

\* C4: a ProofResult never carries the placeholder calldata (a, b, c all "0",
\* no inputs): calldata that was not parsed is an error.
C4_NoPlaceholderCalldata ==
    \A p \in Callers : IsGenerateResult(ret[p]) => ret[p].solidity_calldata # Placeholder

\* C5: a call on a prover whose verifying_key is None starts no external
\* tool and returns the setup-not-performed error.
C5_SetupRequired ==
    \A p \in Callers :
        (verifying_key = None /\ pc[p] # "idle")
            => /\ ran[p] = << >>
               /\ pc[p] = "done" => ret[p] = ErrSetupNotPerformed

\* C6: on a set-up prover every ProofResult holds the proof and the public
\* inputs of the inputs its own call was given, whatever other calls run at
\* the same time.
C6_OwnInputs ==
    \A p \in Callers :
        (verifying_key # None /\ IsGenerateResult(ret[p]))
            => /\ ret[p].proof = ToVec([pi |-> inputs[p]])
               /\ ret[p].public_inputs = PublicSignals(inputs[p])

\* C7: verify_proof with a number of public inputs other than len(IC) - 1 of
\* the loaded key returns the length-mismatch error, never Ok(false).
C7_LengthMismatchIsError ==
    \A p \in Callers :
        (/\ verifying_key # None
         /\ IcMatches(vk_file)
         /\ tools_installed
         /\ VerifyReturned(p)
         /\ Len(vpublic[p]) # Len(verifying_key.gamma_abc_g1) - 1)
            => ret[p] = ErrLengthMismatch

\* C8: a key document whose IC length is not nPublic + 1 is rejected by
\* setup, or every verify_proof with it returns the length-mismatch error.
C8_BadIcKeyRejected ==
    (/\ vk_file \notin {NoFile, Malformed}
     /\ ~IcMatches(vk_file)
     /\ verifying_key # None)
        => \A p \in Callers : VerifyReturned(p) => ret[p] = ErrLengthMismatch

GenerateReturned(p) == pc[p] = "done" /\ vproof[p] = << >>

GenerateCall(p) == pc[p] # "idle" /\ vproof[p] = << >>

\* C12: the proof and the public inputs of every ProofResult of a set-up
\* prover verify against the key: verify_proof on them is true.
C12_ResultVerifies ==
    \A p \in Callers :
        (verifying_key # None /\ IsGenerateResult(ret[p]))
            => Groth16Verify(vk_file, [signals |-> ret[p].public_inputs],
                             [text |-> ret[p].proof])

GenerateFiles == {InputFile, WitnessFile, ProofFile, PublicFile}

\* C13: when generate_proof has returned, with Ok or with an error, and no
\* other call has been made, none of its four temporary files is left.
C13_NoFilesLeft ==
    \A p \in Callers :
        (GenerateReturned(p) /\ \A q \in Callers \ {p} : pc[q] = "idle")
            => \A f \in GenerateFiles : tmp[f] = NoFile

\* The points of the proof document pi as decimal texts: a, c as (x, y) and
\* b as ((x_c0, x_c1), (y_c0, y_c1)) in storage order.
ProofA(pi) == << <<DigitOf(pi)>>, <<"1">> >>
ProofB(pi) == << << <<DigitOf(pi)>>, <<"2">> >>, << <<DigitOf(pi)>>, <<"3">> >> >>
ProofC(pi) == << <<DigitOf(pi)>>, <<"4">> >>

\* the calldata of a proof: a and c as they are, each coordinate of b as
\* [c1, c0], and the public inputs
ToCalldata(pi, public) ==
    [a |-> ProofA(pi),
     b |-> << <<ProofB(pi)[1][2], ProofB(pi)[1][1]>>, <<ProofB(pi)[2][2], ProofB(pi)[2][1]>> >>,
     c |-> ProofC(pi),
     inputs |-> public]

\* C19: the solidity_calldata of a ProofResult has the a, c and the public
\* inputs of its proof, and each coordinate of b with its components as
\* [c1, c0].
C19_CalldataCarriesProof ==
    \A p \in Callers :
        IsGenerateResult(ret[p])
            => ret[p].solidity_calldata
                   = ToCalldata(FromStr(ret[p].proof).value.pi, ret[p].public_inputs)

\* C24: the first recorded offset is 24 (the file header and one section
\* header), and each later one is the offset before it plus the size before
\* it plus 12, computed without wrapping: the offsets increase strictly.
C24_OffsetsIncrease ==
    /\ Len(sections) >= 1 => sections[1][2] = U64(24)
    /\ \A k \in 1..(Len(sections) - 1) :
           LET end == U64Add(sections[k][2], sections[k][3])
               nxt == U64Add(end[1], U64(12))
           IN  /\ ~end[2]
               /\ ~nxt[2]
               /\ sections[k + 1][2] = nxt[1]
               /\ U64Less(sections[k][2], sections[k + 1][2])

(***************************************************************************)
(* Properties of one thread's use of the prover and of the artifact of     *)
(* main, checked under SeqSpec.                                            *)
(***************************************************************************)
\* C21: an artifact the Prove command wrote is read back without an error:
\* the decoded bytes are the proof bytes of the result, they parse to the
\* proof document generate_proof obtained, and the public inputs are those
\* of the result.
C21_ArtifactRoundTrip ==
    artifact \notin GivenArtifacts
        => /\ mpc \in {"saved", "loaded"}
           /\ mpc = "loaded"
                 => /\ proof_bytes = Utf8(ret[MainCaller].proof)
                    /\ FromStr(FromUtf8(proof_bytes)) = Ok([pi |-> inputs[MainCaller]])
                    /\ cli_public_inputs = ret[MainCaller].public_inputs

\* the proof {2} saved as 7b327d and read back as the bytes 123, 50, 125
C21_Witness ==
    /\ mpc = "loaded"
    /\ artifact \notin GivenArtifacts
    /\ artifact.proof = << "7", "b", "3", "2", "7", "d" >>
    /\ proof_bytes = << 123, 50, 125 >>
    /\ inputs[MainCaller] = 2

ToolOrder == << "witness", "prove", "verify", "calldata" >>

KeyFileConverts ==
    /\ vk_file \notin {NoFile, Malformed}
    /\ to_arkworks_vk(vk_file).kind = "Ok"

\* C23: a setup call stores the converted key and returns Ok when the three
\* files exist and the key document loads and converts; every other call
\* returns an error and leaves verifying_key as it was.
C23_SetupFrame ==
    [][Setup => IF wasm_exists /\ zkey_exists /\ KeyFileConverts
                THEN /\ setup_ret' = Ok("unit")
                     /\ verifying_key' = to_arkworks_vk(vk_file).value
                ELSE /\ setup_ret'.kind = "Err"
                     /\ verifying_key' = verifying_key]_vars

\* the parse of every entry of the IC array, in order
ParsedIc == [k \in 1..Len(vk_file.ic) |-> parse_g1_point(vk_file.ic[k])]

\* an Err among the parses of alpha, beta, gamma, delta and the IC entries
SomeParseError ==
    \/ parse_g1_point(vk_file.vk_alpha_1).kind = "Err"
    \/ \E b \in {vk_file.vk_beta_2, vk_file.vk_gamma_2, vk_file.vk_delta_2} :
           parse_g2_point(b).kind = "Err"
    \/ \E k \in 1..Len(vk_file.ic) : ParsedIc[k].kind = "Err"

C9_BatchAbortsAtFirstFailure ==
    failed_at >= 0
        => /\ invoked = [k \in 1..(failed_at + 1) |-> k - 1]
           /\ bpc = "done"
           /\ batch_ret.kind = "Err"
           /\ "proofs" \notin DOMAIN batch_ret
           /\ proofs = << >>

\* a batch of three whose item 1 failed after item 0 had been proved
C9_Witness ==
    /\ bpc = "done"
    /\ Len(binputs) = 3
    /\ failed_at = 1
    /\ invoked = << 0, 1 >>
    /\ batch_ret.kind = "Err"

\* C10: the error of a failed batch names the failing index.
C10_ErrorNamesIndex ==
    failed_at >= 0 => ("index" \in DOMAIN batch_ret /\ batch_ret.index = failed_at)

BatchOk == bpc = "done" /\ batch_ret.kind = "Ok"

\* C11: generate_proof is invoked for the indices 0, 1, 2, ... in this
\* order, the call in progress is the one for the item at the loop index, and
\* a successful batch returns len(inputs) results, the k-th being the proof
\* and the public inputs of the k-th input.
C11_InputOrder ==
    /\ invoked = [k \in 1..Len(invoked) |-> k - 1]
    /\ Len(invoked) <= Len(binputs)
    /\ bpc = "wait"
          => /\ Len(invoked) = bindex + 1
             /\ Len(proofs) = bindex
             /\ inputs[BatchCaller] = binputs[bindex + 1]
    /\ BatchOk
          => /\ Len(batch_ret.proofs) = Len(binputs)
             /\ Len(invoked) = Len(binputs)
             /\ \A k \in 1..Len(binputs) :
                    /\ batch_ret.proofs[k].proof = ToVec([pi |-> binputs[k]])
                    /\ batch_ret.proofs[k].public_inputs = PublicSignals(binputs[k])

\* a batch of three different neighbours proved in order
C11_Witness ==
    /\ BatchOk
    /\ binputs = << 1, 2, 1 >>
    /\ invoked = << 0, 1, 2 >>
    /\ Len(batch_ret.proofs) = 3
    /\ batch_ret.proofs[2].public_inputs = PublicSignals(2)

\* the summed length of the first n proofs of a list
RECURSIVE ProofLengths(_, _)
ProofLengths(ps, n) == IF n = 0 THEN 0 ELSE ProofLengths(ps, n - 1) + Len(ps[n].proof)

\* C20: the aggregated_calldata of a successful batch is as long as its
\* proofs together, holds the bytes of proofs[k] right after those of
\* proofs[0..k-1], and is empty for an empty batch.
C20_Concatenation ==
    BatchOk
        => LET ps == batch_ret.proofs
               agg == batch_ret.aggregated_calldata
           IN  /\ Len(agg) = ProofLengths(ps, Len(ps))
               /\ \A k \in 1..Len(ps) :
                      SubSeq(agg, ProofLengths(ps, k - 1) + 1, ProofLengths(ps, k)) = ps[k].proof
               /\ binputs = << >> => agg = << >>

\* two different proofs, joined in list order
C20_Witness ==
    /\ BatchOk
    /\ binputs = << 1, 2 >>
    /\ batch_ret.aggregated_calldata = ProofText(1) \o ProofText(2)

(***************************************************************************)
(* Properties of the key-document conversion, checked under KeySpec.       *)
(***************************************************************************)
\* the text has a character that is no decimal digit, or no character at all
NonDigit(str) == str = << >> \/ \E k \in 1..Len(str) : str[k] \notin DigitChars

\* C14: a vk_alpha_1 list of any length other than 2 makes the conversion
\* return the error "Invalid G1 point" (the rest of the document being good).
C14_ExactlyTwoEntries ==
    (/\ setup_ret # NoReturn
     /\ vk_file.vk_beta_2 = G2Coords
     /\ Len(vk_file.vk_alpha_1) # 2)
        => setup_ret = Err("Invalid G1 point")

\* C15: a coordinate text of vk_alpha_1 with a character other than 0-9 (or
\* with none) makes the conversion return the coordinate error of
\* parse_g1_point; and with vk_alpha_1 = (1, 2), such a text among the four
\* entries of vk_beta_2 makes it return the component error of parse_g2_point.
C15_NonDigitRejected ==
    LET a == vk_file.vk_alpha_1
        b == vk_file.vk_beta_2
    IN  setup_ret # NoReturn
            => /\ (/\ b = G2Coords
                   /\ Len(a) >= 2
                   /\ NonDigit(a[1]) \/ NonDigit(a[2]))
                      => /\ setup_ret.kind = "Err"
                         /\ setup_ret.msg \in {"Invalid X coordinate", "Invalid Y coordinate"}
               /\ (/\ a = G1Coords(0)
                   /\ Len(b) >= 2 /\ Len(b[1]) >= 2 /\ Len(b[2]) >= 2
                   /\ \E i, j \in 1..2 : NonDigit(b[i][j]))
                      => /\ setup_ret.kind = "Err"
                         /\ setup_ret.msg \in {"Invalid X c0", "Invalid X c1",
                                                "Invalid Y c0", "Invalid Y c1"}

\* the field element a coordinate text stands for
FqOfText(str) == FqFromBig(ParseBytes(str))

ShortG2(b) == Len(b) < 2 \/ Len(b[1]) < 2 \/ Len(b[2]) < 2

\* the four entries of a 2x2 layout are all numbers parse_bytes accepts
AllParse(b) == \A i, j \in 1..2 : ParseBytes(b[i][j]).some

\* C16: with vk_alpha_1 = (1, 2), the conversion returns "Invalid G2 point"
\* exactly when vk_beta_2 has fewer than 2 rows or one of its first two rows
\* has fewer than 2 entries; the beta_g2 of a key it stores has
\* x = (b[0][0], b[0][1]) and y = (b[1][0], b[1][1]) as (c0, c1); and four
\* numbers that name a curve point in that order are stored as that point.
C16_G2Layout ==
    LET b == vk_file.vk_beta_2
    IN  (setup_ret # NoReturn /\ vk_file.vk_alpha_1 = G1Coords(0))
            => /\ ShortG2(b) <=> setup_ret = Err("Invalid G2 point")
               /\ verifying_key # None
                      => verifying_key.beta_g2 =
                             << <<FqOfText(b[1][1]), FqOfText(b[1][2])>>,
                                <<FqOfText(b[2][1]), FqOfText(b[2][2])>> >>
               /\ (/\ ~ShortG2(b)
                   /\ AllParse(b)
                   /\ OnCurveG2(<<FqOfText(b[1][1]), FqOfText(b[1][2])>>,
                                <<FqOfText(b[2][1]), FqOfText(b[2][2])>>))
                      => setup_ret = Ok("unit")

\* setup has stored a key whose beta_g2 is (1 + 0u, 2 + 0u), read from the
\* document [["1","0"],["2","0"]]
C16_Witness ==
    /\ setup_ret = Ok("unit")
    /\ vk_file.vk_beta_2 = G2Coords
    /\ verifying_key # None
    /\ verifying_key.beta_g2 = << <<1, 0>>, <<2, 0>> >>

====
